---- MODULE Spec2Model ----
(***************************************************************************)
(* A model of tblgen-rs's record access layer (src/record.rs): Record,     *)
(* RecordValue, the typed accessors, RecordValueIter, and the errors they  *)
(* return.  The parsed database is owned by the foreign engine behind a    *)
(* RecordKeeper; the Rust layer only reads it through tableGen* calls.     *)
(*                                                                         *)
(* Values of different Rust types are modelled as tagged tuples            *)
(* <<tag, payload>>, so that two values are only ever compared payload to  *)
(* payload when their tags agree.                                          *)
(***************************************************************************)
EXTENDS Integers, Sequences, FiniteSets, TLC

VARIABLES
    keeper,   \* the RecordKeeper: [alive, records]; records is the parsed database
    last,     \* the last call made on a Record and what it returned
    iters,    \* the RecordValueIter objects the client holds
    held,     \* the handles the client still uses (borrow-checker view)
    err,      \* the Error value the client holds, if any
    text      \* the last rendering (Display) of err

vars == <<keeper, last, iters, held, err, text>>

----------------------------------------------------------------------------
(* Bounds of the model *)

\* most fields a record of the database has
MaxFields == 2
\* most next() calls made on one iterator
MaxCalls == 4
\* most handles the client holds at once
MaxHeld == 2

----------------------------------------------------------------------------
(* The foreign database *)

\* TableGenRecordRef of the two definitions of the database
RecordRefs == {"A", "T"}

FieldNames == {"a", "n", "size"}

\* a name no record has a field of
AbsentNames == {"g"}

\* the foreign engine's init values, <<kind, payload>>; a string payload is
\* <<text, valid UTF-8>>
InitValues ==
    { <<"BitInit", TRUE>>,
      <<"BitsInit", <<TRUE, FALSE>>>>,
      <<"IntInit", 42>>,
      <<"StringInit", <<"hello", TRUE>>>>,
      <<"StringInit", <<"\\xff", FALSE>>>>,
      <<"CodeInit", <<"{ x }", TRUE>>>>,
      <<"ListInit", <<1, 2>>>>,
      <<"DagInit", <<"T", 1>>>>,
      <<"DefInit", "T">>,
      <<"UnsetInit", 0>> }

\* the two fields of tests::values
IterValues == { <<"IntInit", 5>>, <<"StringInit", <<"hello", TRUE>>>> }

\* the field of tests::print_error, and a string field
ErrorValues == { <<"IntInit", 4>>, <<"StringInit", <<"hello", TRUE>>>> }
ErrorNames == {"a", "n"}

Classes == {"A", "B", "C", "E"}

\* class E : B; the other classes derive from nothing
ClassSupers(c) == IF c = "E" THEN {"B"} ELSE {}

DistinctNames(s) ==
    \A i, j \in DOMAIN s : i # j => s[i].name # s[j].name

\* the field lists a record can have: at most n fields, no name twice
FieldLists(names, vals, n) ==
    UNION { { s \in [1..k -> [name : names, value : vals]] : DistinctNames(s) }
            : k \in 0..n }

\* def T, the target of def-typed fields
RecordT ==
    [ name |-> <<"T", TRUE>>, anonymous |-> FALSE, supers |-> {},
      values |-> << [name |-> "size", value |-> <<"IntInit", 42>>] >> ]

\* the name of def A, and a name whose bytes are not valid UTF-8
NameA == <<"A", TRUE>>
NameBad == <<"A\\xff", FALSE>>

\* the first definition, with the given name, fields, direct superclasses
\* and anonymity
RecordA(name, fields, supers, anon) ==
    [ name |-> name, anonymous |-> anon, supers |-> supers, values |-> fields ]

Database(name, fields, supers, anon) ==
    [ r \in RecordRefs |->
        IF r = "A" THEN RecordA(name, fields, supers, anon) ELSE RecordT ]

\* a null TableGenRecordValRef, and the pointer to field i of record r
Null == <<"", 0>>
ValRef(r, i) == <<r, i>>

\* SourceLocation::none(), and the locations of the keeper's source buffer
NoLoc == <<"none", "", 0>>
Loc(r, i) == <<"rk", r, i>>

----------------------------------------------------------------------------
(* The foreign engine's functions, as record.rs calls them *)

tableGenRecordGetValue(db, r, name) ==
    LET hits == { i \in DOMAIN db[r].values : db[r].values[i].name = name }
    IN  IF hits = {} THEN Null ELSE ValRef(r, CHOOSE i \in hits : TRUE)

tableGenRecordGetFirstValue(db, r) ==
    IF Len(db[r].values) = 0 THEN Null ELSE ValRef(r, 1)

\* the successors the engine can return for current; the successor of the
\* last field is null, and nothing defines the successor of a null pointer
tableGenRecordValNext(db, r, current) ==
    IF current = Null
    THEN {Null} \cup { ValRef(r, i) : i \in DOMAIN db[r].values }
    ELSE IF current[2] + 1 > Len(db[r].values)
         THEN {Null}
         ELSE {ValRef(r, current[2] + 1)}

\* the field's name, a string init of the engine
tableGenRecordValGetNameInit(db, ptr) ==
    <<"StringInit", <<db[ptr[1]].values[ptr[2]].name, TRUE>>>>

tableGenRecordValGetValue(db, ptr) == db[ptr[1]].values[ptr[2]].value

tableGenRecordValGetLoc(ptr) == Loc(ptr[1], ptr[2])

tableGenRecordGetLoc(r) == Loc(r, 0)

tableGenRecordGetName(db, r) == db[r].name

tableGenRecordIsAnonymous(db, r) == IF db[r].anonymous THEN 1 ELSE 0

\* the classes of the inheritance chain that starts at the direct superclasses s
RECURSIVE Chain(_, _)
Chain(s, fuel) ==
    IF fuel = 0 THEN s
    ELSE Chain(s \cup UNION { ClassSupers(c) : c \in s }, fuel - 1)

tableGenRecordIsSubclassOf(db, r, class) ==
    IF class \in Chain(db[r].supers, Cardinality(Classes)) THEN 1 ELSE 0

----------------------------------------------------------------------------
(* Results, errors and typed values of the Rust layer *)

Ok(v) == <<"Ok", v>>
Err(e) == <<"Err", e>>
IsOk(res) == res[1] = "Ok"
IsErr(res) == res[1] = "Err"

\* TableGenError kinds
MissingValue(name) == <<"MissingValue", name>>
InvalidConversion(from, to) == <<"InvalidConversion", from, to>>
InvalidEncoding == <<"InvalidEncoding">>

\* Error::from(TableGenError): the bare error, no location, no source info.
\* message is the text add_source_info made (<<>>: none), info the source
\* info it was made with
BareError(kind) ==
    [error |-> kind, location |-> NoLoc, message |-> <<>>, info |-> "none"]

\* TableGenError::with_location
with_location(kind, loc) == [BareError(kind) EXCEPT !.location = loc]

\* Error::set_location: the location is replaced, whatever it was
set_location(e, loc) == [e EXCEPT !.location = loc]

\* Display for TableGenError: the base message, a line of words
BaseMessage(kind) ==
    CASE kind[1] = "InvalidConversion" ->
             <<"invalid conversion from", kind[2], "to", kind[3]>>
      [] kind[1] = "MissingValue" -> <<"missing record value", kind[2]>>
      [] OTHER -> <<"invalid UTF-8 string">>

FailureLine == <<"failed to print source information: invalid source location">>

\* whether the source info of keeper info has a buffer that holds loc
Resolves(info, loc) == loc # NoLoc /\ loc[1] = info

\* the text made from a source info: the engine's diagnostic with the source
\* line and a caret, or the base message and the failure to resolve
create_message(info, loc, base) ==
    IF Resolves(info, loc)
    THEN << <<"error:">> \o base,
            <<"source line", loc[2], ToString(loc[3])>>,
            <<"^">> >>
    ELSE << base, FailureLine >>

\* Error::add_source_info
add_source_info(e, info) ==
    [e EXCEPT !.message = create_message(info, e.location, BaseMessage(e.error)),
              !.info = info]

\* Display for Error: the lines printed
Display(e) == IF e.message # <<>> THEN e.message ELSE << BaseMessage(e.error) >>

\* TypedInit::from_raw: the variant of a foreign init value, by its kind
TypedInit_from_raw(v) ==
    CASE v[1] = "BitInit"    -> <<"Bit", v[2]>>
      [] v[1] = "BitsInit"   -> <<"Bits", v[2]>>
      [] v[1] = "CodeInit"   -> <<"Code", v[2]>>
      [] v[1] = "IntInit"    -> <<"Int", v[2]>>
      [] v[1] = "StringInit" -> <<"String", v[2]>>
      [] v[1] = "ListInit"   -> <<"List", v[2]>>
      [] v[1] = "DagInit"    -> <<"Dag", v[2]>>
      [] v[1] = "DefInit"    -> <<"Def", v[2]>>
      [] OTHER               -> <<"Invalid", 0>>

variant_name(init) == init[1]

\* StringInit::from_raw: the string the init holds
StringInit_from_raw(v) == v[2]

\* std::any::type_name of a host type
type_name(ty) ==
    CASE ty = "String"    -> "alloc::string::String"
      [] ty = "Vec<bool>" -> "alloc::vec::Vec<bool>"
      [] ty = "Record"    -> "tblgen::record::Record"
      [] ty = "ListInit"  -> "tblgen::init::ListInit"
      [] ty = "DagInit"   -> "tblgen::init::DagInit"
      [] OTHER            -> ty

\* the variants a host type converts from
VariantsOf(ty) ==
    CASE ty = "bool"      -> {"Bit"}
      [] ty = "Vec<bool>" -> {"Bits"}
      [] ty = "i64"       -> {"Int"}
      [] ty = "String"    -> {"String", "Code"}
      [] ty = "&str"      -> {"String", "Code"}
      [] ty = "Record"    -> {"Def"}
      [] ty = "ListInit"  -> {"List"}
      [] ty = "DagInit"   -> {"Dag"}

\* StringRef -> &str / String: the text when the bytes are valid UTF-8
StringRef_try_into(s, ty) ==
    IF s[2] THEN Ok(<<ty, s[1]>>) ELSE Err(BareError(InvalidEncoding))

\* TryFrom<TypedInit> for a host type: a bare error on a mismatch
TypedInit_try_from(init, ty) ==
    IF variant_name(init) \in VariantsOf(ty)
    THEN IF ty \in {"String", "&str"}
         THEN StringRef_try_into(init[2], ty)
         ELSE Ok(<<ty, init[2]>>)
    ELSE Err(BareError(InvalidConversion(variant_name(init), type_name(ty))))

----------------------------------------------------------------------------
(* src/record.rs *)

\* from_raw with the name init read for the value as well
RecordValue_from_raw_name_twice(db, ptr) ==
    [ raw  |-> ptr,
      name |-> StringInit_from_raw(tableGenRecordValGetNameInit(db, ptr)),
      init |-> TypedInit_from_raw(tableGenRecordValGetNameInit(db, ptr)) ]

\* RecordValue::from_raw
RecordValue_from_raw(db, ptr) ==
    [ raw  |-> ptr,
      name |-> StringInit_from_raw(tableGenRecordValGetNameInit(db, ptr)),
      init |-> TypedInit_from_raw(tableGenRecordValGetValue(db, ptr)) ]

\* SourceLoc for Record, SourceLoc for RecordValue
Record_source_location(r) == tableGenRecordGetLoc(r)
RecordValue_source_location(rv) == tableGenRecordValGetLoc(rv.raw)

\* value() naming the record, not the field, in its error
Record_value_names_record(db, r, name) ==
    LET value == tableGenRecordGetValue(db, r, name)
    IN  IF value # Null
        THEN Ok(RecordValue_from_raw(db, value))
        ELSE Err(with_location(MissingValue(tableGenRecordGetName(db, r)[1]),
                               Record_source_location(r)))

\* Record::value
Record_value(db, r, name) ==
    LET value == tableGenRecordGetValue(db, r, name)
    IN  IF value # Null
        THEN Ok(RecordValue_from_raw(db, value))
        ELSE Err(with_location(MissingValue(name), Record_source_location(r)))

\* try_into! without the map_err: the conversion's error as it is
RecordValue_try_into_bare(rv, ty) == TypedInit_try_from(rv.init, ty)

\* try_into!: TryFrom<RecordValue> for a host type
RecordValue_try_into(rv, ty) ==
    LET res == TypedInit_try_from(rv.init, ty)
    IN  IF IsOk(res) THEN res
        ELSE Err(set_location(res[2], RecordValue_source_location(rv)))

\* the typed accessors that record_value! declares, and the type of each
Accessors ==
    {"bit", "bits", "int", "code", "code_str", "string", "str", "def", "list", "dag"}

\* bits declared with the type of bit
AccessorType_bits_as_bit(acc) ==
    CASE acc = "bit"      -> "bool"
      [] acc = "bits"     -> "bool"
      [] acc = "int"      -> "i64"
      [] acc = "code"     -> "String"
      [] acc = "code_str" -> "&str"
      [] acc = "string"   -> "String"
      [] acc = "str"      -> "&str"
      [] acc = "def"      -> "Record"
      [] acc = "list"     -> "ListInit"
      [] acc = "dag"      -> "DagInit"

\* string declared with the type of str
AccessorType_string_as_str(acc) ==
    CASE acc = "bit"      -> "bool"
      [] acc = "bits"     -> "Vec<bool>"
      [] acc = "int"      -> "i64"
      [] acc = "code"     -> "String"
      [] acc = "code_str" -> "&str"
      [] acc = "string"   -> "&str"
      [] acc = "str"      -> "&str"
      [] acc = "def"      -> "Record"
      [] acc = "list"     -> "ListInit"
      [] acc = "dag"      -> "DagInit"

AccessorType(acc) ==
    CASE acc = "bit"      -> "bool"
      [] acc = "bits"     -> "Vec<bool>"
      [] acc = "int"      -> "i64"
      [] acc = "code"     -> "String"
      [] acc = "code_str" -> "&str"
      [] acc = "string"   -> "String"
      [] acc = "str"      -> "&str"
      [] acc = "def"      -> "Record"
      [] acc = "list"     -> "ListInit"
      [] acc = "dag"      -> "DagInit"

\* record_value! converting before it looks at the lookup's error: a missing
\* field is handed on as an unset value that does not convert
record_value_convert_first(db, r, name, acc) ==
    LET v == Record_value(db, r, name)
    IN  IF IsErr(v)
        THEN Err(with_location(
                 InvalidConversion("Invalid", type_name(AccessorType(acc))),
                 Record_source_location(r)))
        ELSE RecordValue_try_into(v[2], AccessorType(acc))

\* record_value!: self.value(name)?.try_into()
record_value(db, r, name, acc) ==
    LET v == Record_value(db, r, name)
    IN  IF IsErr(v) THEN v ELSE RecordValue_try_into(v[2], AccessorType(acc))

\* Record::name
Record_name(db, r) ==
    LET res == StringRef_try_into(tableGenRecordGetName(db, r), "&str")
    IN  IF IsOk(res) THEN res
        ELSE Err(with_location(res[2].error, Record_source_location(r)))

\* Record::anonymous
Record_anonymous(db, r) == tableGenRecordIsAnonymous(db, r) > 0

\* subclass_of comparing with >= 0
Record_subclass_of_ge(db, r, class) == tableGenRecordIsSubclassOf(db, r, class) >= 0

\* Record::subclass_of
Record_subclass_of(db, r, class) == tableGenRecordIsSubclassOf(db, r, class) > 0

------------------------------------------------------------\* Option<RecordValue>
None == <<"None">>
Some(v) == <<"Some", v>>

\* RecordValueIter::new, for Record::values
RecordValueIter_new(db, r) ==
    [record |-> r, current |-> tableGenRecordGetFirstValue(db, r)]

\* next() taking the item at the successor instead of at current
RecordValueIter_next_advance_first(db, it) ==
    { <<IF nxt = Null THEN None ELSE Some(RecordValue_from_raw(db, nxt)), nxt>>
      : nxt \in tableGenRecordValNext(db, it.record, it.current) }

\* Iterator::next for RecordValueIter: the pairs <<item returned, new current>>
\* a call can end with, one for every successor the engine can return
RecordValueIter_next(db, it) ==
    LET res == IF it.current = Null
               THEN None
               ELSE Some(RecordValue_from_raw(db, it.current))
    IN  { <<res, nxt>> : nxt \in tableGenRecordValNext(db, it.record, it.current) }

\* the handle types that carry the lifetime 'a of the keeper's borrow:
\* Record<'a>, RecordValue<'a>, RecordValueIter<'a>, &'a str, ListInit<'a>,
\* DagInit<'a>; SourceLocation and Error carry none
BorrowsKeeper_str_unbound(kind) ==
    kind \in {"Record", "RecordValue", "RecordValueIter", "ListInit", "DagInit"}

BorrowsKeeper(kind) ==
    kind \in {"Record", "RecordValue", "RecordValueIter", "&str", "ListInit", "DagInit"}

----------------------------------------------------------------------------
(* Calls on a Record of a live keeper: Spec *)

\* the record the client works on: rk.def("A")
Def == "A"

NoCall ==
    [op |-> "none", arg |-> "", acc |-> "", at |-> NoLoc, result |-> <<"None">>]

NoError == BareError(<<"None">>)

\* the databases the calls are made on: def A with every field list, def A
\* with every set of direct superclasses, named or anonymous, and def A with
\* a name that is not valid UTF-8
Databases ==
    { Database(NameA, f, {}, FALSE) : f \in FieldLists(FieldNames, InitValues, MaxFields) }
    \cup { Database(NameA, <<>>, s, a) : s \in SUBSET Classes, a \in BOOLEAN }
    \cup { Database(NameBad, <<>>, {}, FALSE) }

ClientIdle ==
    /\ iters = <<>>
    /\ held = {}
    /\ err = NoError
    /\ text = <<>>

Init ==
    /\ keeper \in [alive : {TRUE}, records : Databases]
    /\ last = NoCall
    /\ ClientIdle

Names == FieldNames \cup AbsentNames

\* the names subclass_of is asked about: the classes, a def, an undeclared
\* name, a class name in another case, and the empty name
ClassQueries == Classes \cup {"T", "D", "a", ""}

\* a call is made when the result of the one before it has been let go
Returned(op, arg, acc, res) ==
    /\ last = NoCall
    /\ last' = [op |-> op, arg |-> arg, acc |-> acc, at |-> NoLoc, result |-> res]
    /\ UNCHANGED <<keeper, iters, held, err, text>>

CallValue(name) ==
    Returned("value", name, "", Record_value(keeper.records, Def, name))

CallTyped(name, acc) ==
    Returned("typed", name, acc, record_value(keeper.records, Def, name, acc))

CallName ==
    Returned("name", "", "", Record_name(keeper.records, Def))

CallAnonymous ==
    Returned("anonymous", "", "", <<"bool", Record_anonymous(keeper.records, Def)>>)

CallSubclassOf(class) ==
    Returned("subclass_of", class, "",
             <<"bool", Record_subclass_of(keeper.records, Def, class)>>)

\* the caller attaches another location to the error it was returned:
\* e.set_location(x), x the record (i = 0) or field i of it
SetLocation(i) ==
    /\ last.op \in {"value", "typed", "name"}
    /\ IsErr(last.result)
    /\ i \in 0..Len(keeper.records[Def].values)
    /\ LET loc == IF i = 0
                  THEN Record_source_location(Def)
                  ELSE RecordValue_source_location(
                           RecordValue_from_raw(keeper.records, ValRef(Def, i)))
       IN  last' = [last EXCEPT !.op = "set_location", !.at = loc,
                                !.result = Err(set_location(last.result[2], loc))]
    /\ UNCHANGED <<keeper, iters, held, err, text>>

\* the caller lets go of the result
Discard ==
    /\ last # NoCall
    /\ last' = NoCall
    /\ UNCHANGED <<keeper, iters, held, err, text>>

Next ==
    \/ \E name \in Names : CallValue(name)
    \/ \E name \in Names, acc \in Accessors : CallTyped(name, acc)
    \/ CallName
    \/ CallAnonymous
    \/ \E class \in ClassQueries : CallSubclassOf(class)
    \/ \E i \in 0..1 : SetLocation(i)
    \/ Discard

Spec == Init /\ [][Next]_vars

----------------------------------------------------------------------------
(* What the calls on a Record return *)

\* the fields of the record the calls are made on, as the database has them
Fields == keeper.records[Def].values

Present(name) == \E i \in DOMAIN Fields : Fields[i].name = name

FieldIndex(name) == CHOOSE i \in DOMAIN Fields : Fields[i].name = name

\* the TypedInit tag of a foreign init kind
KindTag(kind) ==
    CASE kind = "BitInit"    -> "Bit"
      [] kind = "BitsInit"   -> "Bits"
      [] kind = "CodeInit"   -> "Code"
      [] kind = "IntInit"    -> "Int"
      [] kind = "StringInit" -> "String"
      [] kind = "ListInit"   -> "List"
      [] kind = "DagInit"    -> "Dag"
      [] kind = "DefInit"    -> "Def"
      [] kind = "UnsetInit"  -> "Invalid"

\* what each typed accessor asks for: <<host type, its type name, the tags
\* that match it>>
Requested(acc) ==
    CASE acc = "bit"      -> <<"bool", "bool", {"Bit"}>>
      [] acc = "bits"     -> <<"Vec<bool>", "alloc::vec::Vec<bool>", {"Bits"}>>
      [] acc = "int"      -> <<"i64", "i64", {"Int"}>>
      [] acc = "code"     -> <<"String", "alloc::string::String", {"String", "Code"}>>
      [] acc = "code_str" -> <<"&str", "&str", {"String", "Code"}>>
      [] acc = "string"   -> <<"String", "alloc::string::String", {"String", "Code"}>>
      [] acc = "str"      -> <<"&str", "&str", {"String", "Code"}>>
      [] acc = "def"      -> <<"Record", "tblgen::record::Record", {"Def"}>>
      [] acc = "list"     -> <<"ListInit", "tblgen::init::ListInit", {"List"}>>
      [] acc = "dag"      -> <<"DagInit", "tblgen::init::DagInit", {"Dag"}>>

\* C1: value(g) and every typed accessor called with a name g that is no
\* field of the record return Err(MissingValue(g)): never Ok, never an
\* InvalidConversion error.
C1_MissingValue ==
    (last.op \in {"value", "typed"} /\ ~Present(last.arg))
        => /\ IsErr(last.result)
           /\ last.result[2].error = <<"MissingValue", last.arg>>

\* a typed accessor was called with an absent name on a record that has fields
C1_Witness ==
    /\ last.op = "typed"
    /\ last.acc = "int"
    /\ last.arg = "g"
    /\ Len(Fields) = MaxFields
    /\ IsErr(last.result)
    /\ last.result[2].error = <<"MissingValue", "g">>

\* C2: a typed accessor on a present field whose tag does not match the
\* requested type returns Err(InvalidConversion{from: the field's tag, to: the
\* requested type}), and it returns Ok only when the tag matches.
C2_InvalidConversion ==
    (last.op = "typed" /\ Present(last.arg))
        => LET tag == KindTag(Fields[FieldIndex(last.arg)].value[1])
               req == Requested(last.acc)
           IN  /\ tag \notin req[3]
                    => /\ IsErr(last.result)
                       /\ last.result[2].error = <<"InvalidConversion", tag, req[2]>>
               /\ IsOk(last.result) => tag \in req[3]

\* string_value on an int field, as in tests::print_error
C2_Witness ==
    /\ last.op = "typed"
    /\ last.acc = "string"
    /\ Present(last.arg)
    /\ Fields[FieldIndex(last.arg)].value[1] = "IntInit"
    /\ IsErr(last.result)
    /\ last.result[2].error = <<"InvalidConversion", "Int", "alloc::string::String">>

\* C4: a typed accessor returns what value(f) followed by the conversion
\* returns: on a present field whose tag matches and carries v it returns
\* Ok(v), and value(f).init is the variant of that tag carrying v; on an
\* absent field it returns the error of value(f).
C4_AccessorIsValueThenConversion ==
    last.op = "typed"
        => LET v == Record_value(keeper.records, Def, last.arg)
           IN  IF ~Present(last.arg)
               THEN IsErr(v) /\ last.result = v
               ELSE LET f   == Fields[FieldIndex(last.arg)].value
                        tag == KindTag(f[1])
                        req == Requested(last.acc)
                        str == tag \in {"String", "Code"}
                    IN  /\ IsOk(v)
                        /\ v[2].name = <<last.arg, TRUE>>
                        /\ v[2].init = <<tag, f[2]>>
                        /\ (tag \in req[3] /\ (str => f[2][2]))
                              => /\ IsOk(last.result)
                                 /\ last.result[2][1] = req[1]
                                 /\ last.result[2][2] = IF str THEN f[2][1] ELSE f[2]

\* int_value on a field that holds 42, as in tests::single_value
C4_Witness ==
    /\ last.op = "typed"
    /\ last.acc = "int"
    /\ Present(last.arg)
    /\ FieldIndex(last.arg) = MaxFields
    /\ Fields[FieldIndex(last.arg)].value = <<"IntInit", 42>>
    /\ last.result = <<"Ok", <<"i64", 42>>>>

\* a class named c is in the inheritance chain of the record: a path of
\* superclass links leads from a direct superclass of the record to it
InChain(c) ==
    \E k \in 1..Cardinality(Classes) :
        \E p \in [1..k -> Classes] :
            /\ p[1] \in keeper.records[Def].supers
            /\ p[k] = c
            /\ \A i \in 1..k - 1 : p[i + 1] \in ClassSupers(p[i])

\* C8: subclass_of(c) returns a bool, true exactly when a class named c is in
\* the record's inheritance chain, for named and anonymous definitions alike.
C8_SubclassOf ==
    last.op = "subclass_of"
        => /\ last.result[1] = "bool"
           /\ last.result[2] \in BOOLEAN
           /\ last.result[2] <=> InChain(last.arg)

\* an anonymous def that derives from E alone is a subclass of B
C8_Witness ==
    /\ last.op = "subclass_of"
    /\ keeper.records[Def].anonymous
    /\ keeper.records[Def].supers = {"E"}
    /\ last.arg = "B"
    /\ last.result = <<"bool", TRUE>>

\* C9: an error of value(), name() or a typed accessor carries one location:
\* the record's for a missing field or a name that does not decode, the
\* field's for a conversion error, which the TypedInit conversion produced
\* with no location; set_location on an error that has a location replaces it.
C9_ErrorLocation ==
    (last.op \in {"value", "typed", "name", "set_location"} /\ IsErr(last.result))
        => LET e == last.result[2]
           IN  /\ e.location # NoLoc
               /\ last.op = "set_location" => e.location = last.at
               /\ last.op \in {"value", "name"} => e.location = <<"rk", Def, 0>>
               /\ (last.op = "typed" /\ ~Present(last.arg))
                     => e.location = <<"rk", Def, 0>>
               /\ (last.op = "typed" /\ Present(last.arg))
                     => /\ e.error[1] \in {"InvalidConversion", "InvalidEncoding"}
                        /\ e.location = <<"rk", Def, FieldIndex(last.arg)>>
                        /\ LET rv == RecordValue_from_raw(keeper.records,
                                                          ValRef(Def, FieldIndex(last.arg)))
                               bare == TypedInit_try_from(rv.init, AccessorType(last.acc))
                           IN  IsErr(bare) /\ bare[2].location = NoLoc

\* a conversion error on the last field of the record carries that field's
\* location
C9_Witness ==
    /\ last.op = "typed"
    /\ IsErr(last.result)
    /\ last.result[2].error[1] = "InvalidConversion"
    /\ last.result[2].location = <<"rk", Def, MaxFields>>

----------------------------------------------------------------------------
(* Iterating the fields of a record: SpecIter *)

\* the iterators the client holds at once
IterIds == {1, 2}

\* no iterator
NoIter == [record |-> "", current |-> Null, from |-> "none", skip |-> 0,
           sound |-> FALSE, out |-> <<>>]

InitIter ==
    /\ keeper \in [alive : {TRUE},
                   records : { Database(NameA, f, {}, FALSE)
                               : f \in FieldLists(FieldNames, IterValues, MaxFields) }]
    /\ last = NoCall
    /\ iters = [i \in IterIds |-> NoIter]
    /\ held = {}
    /\ err = NoError
    /\ text = <<>>

\* let it = record.values();
\* skip counts the fields passed before the iterator was made, sound says
\* whether it was made before any end of the field list, out is what its
\* next() calls returned
Values(i) ==
    /\ iters[i] = NoIter
    /\ LET it == RecordValueIter_new(keeper.records, Def)
       IN  iters' = [iters EXCEPT ![i] =
                        [record |-> it.record, current |-> it.current,
                         from |-> "values", skip |-> 0, sound |-> TRUE, out |-> <<>>]]
    /\ UNCHANGED <<keeper, last, held, err, text>>

\* let it = other.clone(); (derive(Clone): record and current are copied)
Clone(i, j) ==
    /\ iters[i] = NoIter
    /\ iters[j] # NoIter
    /\ iters' = [iters EXCEPT ![i] =
                    [record |-> iters[j].record, current |-> iters[j].current,
                     from |-> "clone",
                     skip |-> iters[j].skip + Len(iters[j].out),
                     sound |-> iters[j].sound
                               /\ \A k \in DOMAIN iters[j].out : iters[j].out[k] # None,
                     out |-> <<>>]]
    /\ UNCHANGED <<keeper, last, held, err, text>>

\* it.next()
IterNext(i) ==
    /\ iters[i] # NoIter
    /\ Len(iters[i].out) < MaxCalls
    /\ \E step \in RecordValueIter_next(keeper.records, iters[i]) :
          iters' = [iters EXCEPT ![i].current = step[2],
                                 ![i].out = Append(@, step[1])]
    /\ UNCHANGED <<keeper, last, held, err, text>>

NextIter ==
    \/ \E i \in IterIds : Values(i)
    \/ \E i, j \in IterIds : Clone(i, j)
    \/ \E i \in IterIds : IterNext(i)

SpecIter == InitIter /\ [][NextIter]_vars

\* field k of the record as a RecordValue
FieldValue(k) ==
    [ raw  |-> <<Def, k>>,
      name |-> <<Fields[k].name, TRUE>>,
      init |-> <<KindTag(Fields[k].value[1]), Fields[k].value[2]>> ]

\* C3: an iterator that values() returned yields the N fields of the record
\* in declaration order and then None; a clone goes on from where the
\* iterator it was cloned from stood; and that holds of every iterator
\* whatever calls are made on the others.
C3_ValuesInOrder ==
    \A i \in IterIds :
        (iters[i] # NoIter /\ iters[i].sound)
            => /\ iters[i].from = "values" => iters[i].skip = 0
               /\ \A k \in DOMAIN iters[i].out :
                     LET n == iters[i].skip + k
                     IN  /\ n <= Len(Fields) => iters[i].out[k] = Some(FieldValue(n))
                         /\ n = Len(Fields) + 1 => iters[i].out[k] = None

\* tests::values: a clone made at the start is consumed to its end, and the
\* iterator it was cloned from then still yields every field and ends
C3_Witness ==
    /\ Len(Fields) = MaxFields
    /\ iters[1].from = "values"
    /\ iters[2].from = "clone"
    /\ iters[2].skip = 0
    /\ Len(iters[2].out) = MaxFields + 1
    /\ Len(iters[1].out) = MaxFields + 1
    /\ iters[1].out[MaxFields] = Some(FieldValue(MaxFields))
    /\ iters[1].out[MaxFields + 1] = None

\* C10: once next() has returned None, every later next() on the same
\* iterator returns None.
C10_NoneIsFinal ==
    \A i \in IterIds :
        \A j, k \in DOMAIN iters[i].out :
            (j < k /\ iters[i].out[j] = None) => iters[i].out[k] = None

----------------------------------------------------------------------------
(* Handles, errors and the keeper's end: SpecError *)

\* the source infos a client can attach: the keeper's own, and that of an
\* unrelated keeper (parsed from "def A;" in tests::print_error)
SourceInfos == {"rk", "other"}

\* the typed accessors the client calls here
ErrorAccessors == {"string", "str"}

NoText == <<>>

InitError ==
    /\ keeper \in [alive : {TRUE},
                   records : { Database(NameA, f, {}, FALSE)
                               : f \in FieldLists(ErrorNames, ErrorValues, MaxFields) }]
    /\ last = NoCall
    /\ iters = <<>>
    /\ held = {}
    /\ err = NoError
    /\ text = NoText

\* the handles <<kind, i>>: the record, field i of it as a RecordValue, and
\* (i = 0) a borrowed string or a source location
TheRecord == <<"Record", 0>>

Hold(h) ==
    /\ Cardinality(held \cup {h}) <= MaxHeld
    /\ held' = held \cup {h}

\* the call that returned err is remembered in last
Failed(op, arg, acc, res) ==
    /\ err' = res[2]
    /\ last' = [op |-> op, arg |-> arg, acc |-> acc, at |-> NoLoc, result |-> res]
    /\ text' = NoText

\* let a = rk.def("A")
GetDef ==
    /\ keeper.alive
    /\ Hold(TheRecord)
    /\ UNCHANGED <<keeper, last, iters, err, text>>

\* a.value(name): the RecordValue is held, or the error is
ValueOf(name) ==
    /\ TheRecord \in held
    /\ LET res == Record_value(keeper.records, Def, name)
       IN  IF IsErr(res)
           THEN Failed("value", name, "", res) /\ UNCHANGED held
           ELSE Hold(<<"RecordValue", res[2].raw[2]>>) /\ UNCHANGED <<err, last, text>>
    /\ UNCHANGED <<keeper, iters>>

\* the host types that own their data: bool, Vec<bool>, i64, String
Owned(ty) == ty \in {"bool", "Vec<bool>", "i64", "String"}

\* a.<acc>_value(name): a borrowed result is held, an owned one is not
TypedOf(name, acc) ==
    /\ TheRecord \in held
    /\ LET res == record_value(keeper.records, Def, name, acc)
       IN  IF IsErr(res)
           THEN Failed("typed", name, acc, res) /\ UNCHANGED held
           ELSE /\ IF Owned(res[2][1])
                   THEN UNCHANGED held
                   ELSE Hold(<<res[2][1], 0>>)
                /\ UNCHANGED <<err, last, text>>
    /\ UNCHANGED <<keeper, iters>>

\* T::try_from(v.init) on a held RecordValue: the error is bare
ConvertInit(i, acc) ==
    /\ <<"RecordValue", i>> \in held
    /\ LET rv  == RecordValue_from_raw(keeper.records, ValRef(Def, i))
           res == TypedInit_try_from(rv.init, AccessorType(acc))
       IN  /\ IsErr(res)
           /\ Failed("convert", Fields[i].name, acc, res)
    /\ UNCHANGED <<keeper, iters, held>>

\* a.values(): the iterator is held
IterOf ==
    /\ TheRecord \in held
    /\ Hold(<<"RecordValueIter", 0>>)
    /\ UNCHANGED <<keeper, last, iters, err, text>>

\* x.source_location() of a held record or field
LocationOf(h) ==
    /\ h \in held
    /\ h[1] \in {"Record", "RecordValue"}
    /\ Hold(<<"SourceLocation", 0>>)
    /\ UNCHANGED <<keeper, last, iters, err, text>>

\* err.set_location(x), x a held record or field
AttachLocation(h) ==
    /\ err # NoError
    /\ h \in held
    /\ h[1] \in {"Record", "RecordValue"}
    /\ LET loc == IF h[1] = "Record"
                  THEN Record_source_location(Def)
                  ELSE RecordValue_source_location(
                           RecordValue_from_raw(keeper.records, ValRef(Def, h[2])))
       IN  /\ err' = set_location(err, loc)
           /\ last' = [last EXCEPT !.at = loc]
    /\ text' = NoText
    /\ UNCHANGED <<keeper, iters, held>>

\* err.add_source_info(k.source_info()): the keeper's own while it lives
AttachSourceInfo(info) ==
    /\ err # NoError
    /\ info = "rk" => keeper.alive
    /\ err' = add_source_info(err, info)
    /\ text' = NoText
    /\ UNCHANGED <<keeper, last, iters, held>>

\* format!("{}", err); the text is kept with whether the keeper was dropped
Render ==
    /\ err # NoError
    /\ text' = <<Display(err), ~keeper.alive>>
    /\ UNCHANGED <<keeper, last, iters, held, err>>

\* the last use of a handle is over
Release(h) ==
    /\ h \in held
    /\ held' = held \ {h}
    /\ UNCHANGED <<keeper, last, iters, err, text>>

\* drop(rk): accepted by the borrow checker when no handle that borrows the
\* keeper is used afterwards
DropKeeper ==
    /\ keeper.alive
    /\ \A h \in held : ~BorrowsKeeper(h[1])
    /\ keeper' = [keeper EXCEPT !.alive = FALSE]
    /\ UNCHANGED <<last, iters, held, err, text>>

NextError ==
    \/ GetDef
    \/ \E name \in ErrorNames \cup AbsentNames : ValueOf(name)
    \/ \E name \in ErrorNames \cup AbsentNames, acc \in ErrorAccessors : TypedOf(name, acc)
    \/ \E i \in 1..MaxFields, acc \in ErrorAccessors : ConvertInit(i, acc)
    \/ IterOf
    \/ \E h \in held : LocationOf(h)
    \/ \E h \in held : AttachLocation(h)
    \/ \E info \in SourceInfos : AttachSourceInfo(info)
    \/ Render
    \/ \E h \in held : Release(h)
    \/ DropKeeper

SpecError == InitError /\ [][NextError]_vars


\* the error the call remembered in last has to return, from the database
ExpectedKind ==
    IF last.op = "value" \/ ~Present(last.arg)
    THEN <<"MissingValue", last.arg>>
    ELSE LET tag == KindTag(Fields[FieldIndex(last.arg)].value[1])
             req == Requested(last.acc)
         IN  IF tag \notin req[3]
             THEN <<"InvalidConversion", tag, req[2]>>
             ELSE <<"InvalidEncoding">>

\* line ends with the words of base
EndsWith(line, base) ==
    /\ Len(line) >= Len(base)
    /\ SubSeq(line, Len(line) - Len(base) + 1, Len(line)) = base

LifetimeBound == {"Record", "RecordValue", "RecordValueIter", "&str", "ListInit", "DagInit"}

\* C5 as claimed: once the keeper is dropped the client holds no Record,
\* RecordValue, borrowed string or SourceLocation of it, neither directly nor
\* inside an Error.
C5_NothingOutlivesKeeper ==
    ~keeper.alive
        => /\ \A h \in held : h[1] \notin LifetimeBound \cup {"SourceLocation"}
           /\ err.location = NoLoc

\* C5 as amended: once the keeper is dropped the client holds no handle whose
\* type carries the keeper's lifetime (Record, RecordValue, RecordValueIter,
\* borrowed string, ListInit, DagInit); a SourceLocation, alone or inside an
\* Error, can be held on.
C5_BorrowsEndBeforeKeeper ==
    ~keeper.alive => \A h \in held : h[1] \notin LifetimeBound

\* tests::print_error: the error of string_value, with the field's location,
\* is held after drop(rk), and so is a SourceLocation
C5_Witness ==
    /\ ~keeper.alive
    /\ last.op = "typed"
    /\ err.error[1] = "InvalidConversion"
    /\ err.location = <<"rk", Def, MaxFields>>
    /\ <<"SourceLocation", 0>> \in held

\* a conversion error of a typed accessor was rendered after drop(rk)
RenderedAfterDrop ==
    /\ text # NoText
    /\ text[2]
    /\ last.op = "typed"
    /\ ExpectedKind[1] = "InvalidConversion"

\* C6 as claimed: rendering the conversion error after the keeper was dropped
\* yields the base message and the "failed to print source information"
\* line.
C6_SuffixAfterDrop ==
    RenderedAfterDrop => text[1] = << BaseMessage(ExpectedKind), FailureLine >>

\* C6 as amended: rendering the conversion error after the keeper was dropped
\* yields the base message alone when no source info was attached; the
\* "failed to print source information" line follows the base message when
\* the source info of another keeper was attached, and is printed only for
\* an error that source info was attached to.
C6_BaseMessageAfterDrop ==
    RenderedAfterDrop
        => /\ err.info = "none" => text[1] = << BaseMessage(ExpectedKind) >>
           /\ err.info = "other" => text[1] = << BaseMessage(ExpectedKind), FailureLine >>
           /\ (\E i \in DOMAIN text[1] : text[1][i] = FailureLine) => err.info # "none"

\* tests::print_error, "without source info"
C6_Witness ==
    /\ text # NoText
    /\ text[2]
    /\ last.op = "typed"
    /\ last.acc = "string"
    /\ err.error = <<"InvalidConversion", "Int", "alloc::string::String">>
    /\ err.info = "none"
    /\ text[1] = << <<"invalid conversion from", "Int", "to", "alloc::string::String">> >>

\* C7: whatever locations and source infos were attached to an error, its
\* rendering shows the base message; when the attached source info cannot
\* resolve the error's location, the rendering is the base message followed
\* by the failure line.
C7_BaseMessageShown ==
    text # NoText
        => LET lines == text[1]
               base  == BaseMessage(ExpectedKind)
           IN  /\ \E i \in DOMAIN lines : EndsWith(lines[i], base)
               /\ (err.info = "other" \/ (err.info = "rk" /\ err.location = NoLoc))
                     => lines = << base, FailureLine >>

\* tests::print_error, "with incorrect source info": the error has the
\* field's location and the source info of an unrelated keeper
C7_Witness ==
    /\ text # NoText
    /\ last.op = "typed"
    /\ err.location = <<"rk", Def, 1>>
    /\ err.info = "other"
    /\ text[1] = << <<"invalid conversion from", "Int", "to", "alloc::string::String">>,
                    FailureLine >>

====
